---- MODULE Spec2Model ----
(***************************************************************************)
(* A model of plado's stratified Datalog engine                            *)
(* (src/plado/datalog/evaluator/__init__.py): clause normalisation, the    *)
(* relation dependency graph and its strongly connected components, the    *)
(* stratification check, the emission of evaluation units, and an engine   *)
(* call.  The collaborators that are imported by the file but are not part *)
(* of it (Atom/Constant, tarjan, the query planner, the two compile_*      *)
(* functions) are modelled from their documented interface.                *)
(***************************************************************************)
EXTENDS Integers, Sequences, FiniteSets, TLC

VARIABLES
  \* --- normalisation of one clause (SpecNorm) ---
  npc,            \* "raw" -> "normalized" -> "planned"
  clause,         \* the raw Clause handed to _normalize_clause
  normalized,     \* the NormalizedClause, or AssertionError
  projection,     \* the set of ids _generate_query_tree hands to insert_projections
  \* --- the engine (Spec) ---
  pc,             \* "new" | "failed" | "ready" | "running" | "returned"
  program,        \* the DatalogProgram given to DatalogEngine
  num_objects,    \* the num_objects given to DatalogEngine
  engine,         \* the DatalogEngine's fields (and the compiler's intermediate results)
  facts,          \* the Database passed to the current call
  fluents,        \* the FluentsDatabase passed to the current call
  relations,      \* env[RELATIONS] of the current call; the returned Database afterwards
  unit,           \* index (1-based) of the evaluation unit the compiled program is at
  evals,          \* per clause: its plan was evaluated 0, 1 or more (2) times in this call
  loops,          \* per unit: it ran 0, 1 or more (2) fixpoint rounds in this call
  first           \* an earlier call that is remembered: its facts, fluents and result,
                  \* and whether a call with other inputs has returned since

normVars == <<npc, clause, normalized, projection>>
engineVars == <<pc, program, num_objects, engine, facts, fluents, relations, unit,
                evals, loops, first>>
vars == <<npc, clause, normalized, projection, pc, program, num_objects, engine,
          facts, fluents, relations, unit, evals, loops, first>>

(***************************************************************************)
(* Bounds of the model.                                                    *)
(***************************************************************************)
\* variable indices of the clauses handed to _normalize_clause: 0 .. MaxVars-1
MaxVars == 2
\* object identifiers used as constants in those clauses: 0 .. MaxConsts-1
MaxConsts == 2
\* object identifiers of the engine's universe: 0 .. MaxObjects-1
MaxObjects == 3
\* number of tuples in the Database passed to the first call
MaxTuples == 3
\* number of clauses of the enumerated programs
MaxClauses == 2
\* number of relations of the enumerated programs
MaxRelations == 3

(***************************************************************************)
(* Helpers.                                                                *)
(***************************************************************************)
SetMax(S) == CHOOSE x \in S : \A y \in S : y <= x
SetMin(S) == CHOOSE x \in S : \A y \in S : x <= y
Min2(a, b) == IF a <= b THEN a ELSE b
Max2(a, b) == IF a >= b THEN a ELSE b
Range(s) == {s[i] : i \in DOMAIN s}

\* the elements of a set of integers in ascending order (the iteration order of
\* range() and of a small Python set of small ints)
RECURSIVE SortedSeq(_)
SortedSeq(S) ==
  IF S = {} THEN <<>> ELSE LET m == SetMin(S) IN <<m>> \o SortedSeq(S \ {m})

\* Python lists are 0-based: a list is a function on 0 .. n-1
ListLen(l) == Cardinality(DOMAIN l)
EmptyList == [i \in {} |-> {}]
ListOf(s) == [i \in 0 .. Len(s) - 1 |-> s[i + 1]]
ListAppend(l, x) == [i \in 0 .. ListLen(l) |-> IF i < ListLen(l) THEN l[i] ELSE x]
ListDelete(l, k) == [i \in 0 .. ListLen(l) - 2 |-> IF i < k THEN l[i] ELSE l[i + 1]]

(***************************************************************************)
(* plado.datalog.program: Constant, Atom, Clause.                          *)
(***************************************************************************)
\* Constant(id, is_variable)
Constant(id, is_variable) == [id |-> id, var |-> is_variable]
Variable(i) == Constant(i, TRUE)
Object(o) == Constant(o, FALSE)
\* Atom(relation_id, arguments)
Atom(relation_id, arguments) == [relation_id |-> relation_id, arguments |-> arguments]
\* Atom.get_variables(): the set of variable indices appearing in the atom
GetVariables(atom) ==
  {atom.arguments[i].id : i \in {j \in DOMAIN atom.arguments : atom.arguments[j].var}}
\* all variables of a collection of atoms
AtomsVariables(atoms) == UNION {GetVariables(atoms[i]) : i \in DOMAIN atoms}
\* Clause(head, pos_body, neg_body, constraints); a numeric constraint is
\* represented by constr.expr.get_variables(), the only part the file reads
Clause(head, pos_body, neg_body, constraints) ==
  [head |-> head, pos_body |-> pos_body, neg_body |-> neg_body,
   constraints |-> constraints]

(***************************************************************************)
(* A failed assert.                                                        *)
(***************************************************************************)
AssertionError == [error |-> "AssertionError"]
Failed(x) == x = AssertionError

(***************************************************************************)
(* NormalizedClause.__init__ (lines 32-56): stores the fields and asserts  *)
(* that every index in range(num_variables) occurs in a positive atom.     *)
(***************************************************************************)
PositivelyBounded(num_variables, positive) ==
  \A varid \in 0 .. num_variables - 1 :
    \E i \in DOMAIN positive : varid \in GetVariables(positive[i])

NormalizedClause(head, num_variables, positive, negative, vars_eq, vars_neq, obj_eq, obj_neq, constraints) ==
  IF PositivelyBounded(num_variables, positive)
  THEN [head |-> head, num_variables |-> num_variables, positive |-> positive,
        negative |-> negative, vars_eq |-> vars_eq, vars_neq |-> vars_neq,
        obj_eq |-> obj_eq, obj_neq |-> obj_neq, constrants |-> constraints]
  ELSE AssertionError

(***************************************************************************)
(* _extract_eq_atom (lines 198-220).  The three output lists are returned  *)
(* in a record; ok is FALSE when one of the asserts fails.                 *)
(***************************************************************************)
RECURSIVE ExtractEqAtom(_, _, _, _, _)
ExtractEqAtom(source, atoms, variables, objs, eq_relation) ==
  IF source = <<>>
  THEN [ok |-> TRUE, atoms |-> atoms, variables |-> variables, objs |-> objs]
  ELSE
    LET atom == Head(source)
        rest == Tail(source)
    IN IF atom.relation_id = eq_relation
       THEN IF Len(atom.arguments) # 2
            THEN [ok |-> FALSE, atoms |-> atoms, variables |-> variables, objs |-> objs]
            ELSE
              LET x == atom.arguments[1]
                  y == atom.arguments[2]
              IN IF x.var
                 THEN IF y.var
                      THEN ExtractEqAtom(rest, atoms,
                             Append(variables, <<Min2(x.id, y.id), Max2(x.id, y.id)>>),
                             objs, eq_relation)
                      ELSE ExtractEqAtom(rest, atoms, variables,
                             Append(objs, <<x.id, y.id>>), eq_relation)
                 ELSE IF y.var
                      THEN ExtractEqAtom(rest, atoms, variables,
                             Append(objs, <<y.id, x.id>>), eq_relation)
                      ELSE [ok |-> FALSE, atoms |-> atoms, variables |-> variables,
                            objs |-> objs]
       ELSE ExtractEqAtom(rest, Append(atoms, atom), variables, objs, eq_relation)

(***************************************************************************)
(* _normalize_clause (lines 223-260).                                      *)
(***************************************************************************)
\* lines 236-244: one past the largest variable index of the head, the kept
\* atoms and the numeric constraints
NumVariables(head, positive, negative, constraints) ==
  LET used == GetVariables(head) \cup AtomsVariables(positive)
                \cup AtomsVariables(negative)
                \cup UNION {constraints[i] : i \in DOMAIN constraints}
  IN IF used = {} THEN 0 ELSE SetMax(used) + 1

\* lines 246-248: a universe atom for every index no positive atom binds
\* a variant that binds the missing indices as objects, not as variables
BindUnbound_AsObject(varids, positive, object_relation) ==
  positive \o [k \in 1 .. Len(varids) |-> Atom(object_relation, <<Constant(varids[k], FALSE)>>)]

RECURSIVE BindUnbound(_, _, _)
BindUnbound(varids, positive, object_relation) ==
  IF varids = <<>> THEN positive
  ELSE LET varid == Head(varids) IN
       IF \E i \in DOMAIN positive : varid \in GetVariables(positive[i])
       THEN BindUnbound(Tail(varids), positive, object_relation)
       ELSE BindUnbound(Tail(varids),
                        Append(positive, Atom(object_relation, <<Constant(varid, TRUE)>>)),
                        object_relation)

NormalizeClause(c, eq_relation, object_relation) ==
  LET pos == ExtractEqAtom(c.pos_body, <<>>, <<>>, <<>>, eq_relation)
      neg == ExtractEqAtom(c.neg_body, <<>>, <<>>, <<>>, eq_relation)
  IN IF ~pos.ok \/ ~neg.ok THEN AssertionError
     ELSE
       LET num_variables == NumVariables(c.head, pos.atoms, neg.atoms, c.constraints)
           positive == BindUnbound(SortedSeq(0 .. num_variables - 1), pos.atoms,
                                   object_relation)
       IN NormalizedClause(c.head, num_variables, positive, neg.atoms,
                           pos.variables, neg.variables, pos.objs, neg.objs,
                           c.constraints)

(***************************************************************************)
(* _generate_query_tree (lines 73-85).  The plan built by the join planner *)
(* is represented by what it computes: the join of the positive atoms, the *)
(* anti-joins of the negative ones, the four residual filters, and the set *)
(* of indices handed to insert_projections.                                *)
(***************************************************************************)
HeadArgumentIds(nc) == {nc.head.arguments[i].id : i \in DOMAIN nc.head.arguments}

GenerateQueryTree(nc) ==
  [num_variables |-> nc.num_variables, positive |-> nc.positive,
   negative |-> nc.negative, vars_eq |-> nc.vars_eq, vars_neq |-> nc.vars_neq,
   obj_eq |-> nc.obj_eq, obj_neq |-> nc.obj_neq,
   projection |-> HeadArgumentIds(nc)]

(***************************************************************************)
(* _get_dependency_graph (lines 88-96): dg[head] holds the relation of     *)
(* every positive and negative atom of every clause with that head.        *)
(***************************************************************************)
GetDependencyGraph(num_relations, clauses) ==
  [r \in 0 .. num_relations - 1 |->
     {a.relation_id : a \in UNION {Range(clauses[i].positive) \cup Range(clauses[i].negative) :
                                     i \in {j \in DOMAIN clauses : clauses[j].head.relation_id = r}}}]

(***************************************************************************)
(* _get_dependent_components (lines 99-116) and plado.utils.tarjan.        *)
(* The traversal state st holds the callbacks' variables (visited, result) *)
(* and tarjan's own (index, low, stack, counter).                          *)
(***************************************************************************)
\* a variant that puts each new component in front of the earlier ones
OnScc_Prepend(st, scc) ==
  [st EXCEPT !.visited = @ \cup Range(scc), !.result = <<scc>> \o @]

\* on_scc (lines 104-107)
OnScc(st, scc) ==
  [st EXCEPT !.visited = @ \cup Range(scc), !.result = Append(@, scc)]

\* get_successors (lines 109-110), a generator: visited is read when the
\* successor is reached
GetSuccessors(dg, visited, r) == {rr \in dg[r] : rr \notin visited}

\* the stack from v to its top, top first, is the component of root v
PopScc(v, st) ==
  LET pos == CHOOSE i \in DOMAIN st.stack : st.stack[i] = v
      n == Len(st.stack)
      scc == [i \in 1 .. n - pos + 1 |-> st.stack[n - i + 1]]
  IN OnScc([st EXCEPT !.stack = SubSeq(st.stack, 1, pos - 1)], scc)

RECURSIVE TarjanVisit(_, _, _)
RECURSIVE TarjanSuccessors(_, _, _, _)
TarjanVisit(v, dg, st) ==
  LET st1 == [st EXCEPT !.index[v] = st.counter, !.low[v] = st.counter,
                        !.counter = @ + 1, !.stack = Append(@, v)]
      st2 == TarjanSuccessors(v, SortedSeq(dg[v]), dg, st1)
  IN IF st2.low[v] = st2.index[v] THEN PopScc(v, st2) ELSE st2

TarjanSuccessors(v, succs, dg, st) ==
  IF succs = <<>> THEN st
  ELSE
    LET w == Head(succs) IN
    IF w \notin GetSuccessors(dg, st.visited, v)
    THEN TarjanSuccessors(v, Tail(succs), dg, st)
    ELSE IF st.index[w] < 0
    THEN LET st1 == TarjanVisit(w, dg, st)
         IN TarjanSuccessors(v, Tail(succs), dg,
                             [st1 EXCEPT !.low[v] = Min2(st1.low[v], st1.low[w])])
    ELSE IF w \in Range(st.stack)
    THEN TarjanSuccessors(v, Tail(succs), dg,
                          [st EXCEPT !.low[v] = Min2(st.low[v], st.index[w])])
    ELSE TarjanSuccessors(v, Tail(succs), dg, st)

\* tarjan(root, get_successors, on_scc): a fresh traversal from root
Tarjan(root, dg, st) ==
  TarjanVisit(root, dg,
              [st EXCEPT !.index = [r \in DOMAIN dg |-> -1],
                         !.low = [r \in DOMAIN dg |-> -1],
                         !.stack = <<>>, !.counter = 0])

\* lines 112-114
RECURSIVE ComponentsFrom(_, _, _)
ComponentsFrom(roots, dg, st) ==
  IF roots = <<>> THEN st
  ELSE IF Head(roots) \in st.visited
       THEN ComponentsFrom(Tail(roots), dg, st)
       ELSE ComponentsFrom(Tail(roots), dg, Tarjan(Head(roots), dg, st))

GetDependentComponents(dg) ==
  ComponentsFrom(SortedSeq(DOMAIN dg), dg,
                 [visited |-> {}, result |-> <<>>,
                  index |-> [r \in DOMAIN dg |-> -1], low |-> [r \in DOMAIN dg |-> -1],
                  stack |-> <<>>, counter |-> 0]).result

(***************************************************************************)
(* _is_stratified (lines 119-133).  Component indices are enumerate()'s,   *)
(* 0-based.                                                                *)
(***************************************************************************)
ComponentIdx(components, r) ==
  SetMax({i \in DOMAIN components : r \in Range(components[i])}) - 1

\* a variant that accepts a negative atom in the head's own component
IsStratified_Strict(num_relations, clauses, components) ==
  \A i \in DOMAIN clauses : \A k \in DOMAIN clauses[i].negative :
    ~(ComponentIdx(components, clauses[i].negative[k].relation_id)
        > ComponentIdx(components, clauses[i].head.relation_id))

IsStratified(num_relations, clauses, components) ==
  \A i \in DOMAIN clauses : \A k \in DOMAIN clauses[i].negative :
    ~(ComponentIdx(components, clauses[i].negative[k].relation_id)
        >= ComponentIdx(components, clauses[i].head.relation_id))

(***************************************************************************)
(* plado.datalog.evaluator.compiler: the two kinds of evaluation unit.     *)
(* A unit is represented by the arguments it was compiled from; what it    *)
(* does when executed is given by the actions below.                       *)
(***************************************************************************)
CompileInterdepending(relations_, relation_args, rules, num_relations) ==
  [kind |-> "interdepending", relations |-> relations_,
   relation_args |-> relation_args, rules |-> rules]

CompileWithoutDependencies(relation, args, rule, num_relations) ==
  [kind |-> "without_dependencies", relations |-> <<relation>>,
   relation_args |-> <<args>>, rules |-> <<rule>>]

(***************************************************************************)
(* _get_query_engine_code (lines 136-195).                                 *)
(***************************************************************************)
\* tuple((arg.id for arg in clause.head.arguments)) (lines 163, 184)
HeadArgs(nc) == [i \in DOMAIN nc.head.arguments |-> nc.head.arguments[i].id]

\* line 156: the clauses whose head relation is in the group, in order
ClauseIdxs(clauses, group) ==
  SortedSeq({i \in DOMAIN clauses : clauses[i].head.relation_id \in Range(group)})

\* a variant that overlooks the self-loop of a single relation
NeedsFixpoint_NoSelfLoop(group, dependency_graph) == Len(group) > 1
\* a variant that compiles every group to a fixpoint
NeedsFixpoint_Always(group, dependency_graph) == Len(group) >= 1

\* line 160: the group is compiled to a joint fixpoint
NeedsFixpoint(group, dependency_graph) ==
  Len(group) > 1 \/ group[1] \in dependency_graph[group[1]]

\* lines 155-188: the units of one group; idxs records, for each rule of a
\* unit, the clause it was planned from
GroupUnits(group, clauses, query_trees, dependency_graph, num_relations) ==
  LET clause_idxs == ClauseIdxs(clauses, group) IN
  IF Len(clause_idxs) = 0 THEN <<>>
  ELSE IF NeedsFixpoint(group, dependency_graph)
  THEN << [unit |-> CompileInterdepending(
                      [k \in DOMAIN clause_idxs |-> clauses[clause_idxs[k]].head.relation_id],
                      [k \in DOMAIN clause_idxs |-> HeadArgs(clauses[clause_idxs[k]])],
                      [k \in DOMAIN clause_idxs |-> query_trees[clause_idxs[k]]],
                      num_relations),
           idxs |-> clause_idxs] >>
  ELSE [k \in DOMAIN clause_idxs |->
          [unit |-> CompileWithoutDependencies(
                      clauses[clause_idxs[k]].head.relation_id,
                      HeadArgs(clauses[clause_idxs[k]]),
                      query_trees[clause_idxs[k]],
                      num_relations),
           idxs |-> <<clause_idxs[k]>>]]

RECURSIVE EvaluatorCode(_, _, _, _, _)
EvaluatorCode(groups, clauses, query_trees, dependency_graph, num_relations) ==
  IF groups = <<>> THEN <<>>
  ELSE GroupUnits(Head(groups), clauses, query_trees, dependency_graph, num_relations)
       \o EvaluatorCode(Tail(groups), clauses, query_trees, dependency_graph, num_relations)

GetQueryEngineCode(num_relations, clauses) ==
  LET dependency_graph == GetDependencyGraph(num_relations, clauses)
      dependent_clauses == GetDependentComponents(dependency_graph)
  IN IF ~IsStratified(num_relations, clauses, dependent_clauses)
     THEN AssertionError
     ELSE LET query_trees == [i \in DOMAIN clauses |-> GenerateQueryTree(clauses[i])]
          IN [units |-> EvaluatorCode(dependent_clauses, clauses, query_trees,
                                      dependency_graph, num_relations)]

(***************************************************************************)
(* DatalogEngine.__init__ (lines 264-286).  A DatalogProgram is a record   *)
(* of num_relations, equality_relation, clauses and trivial_clauses.       *)
(***************************************************************************)
Unconstructed == [error |-> "unconstructed"]

\* lines 274-279
NormalizedClauses(prog, object_relation) ==
  [i \in DOMAIN prog.clauses |->
     NormalizeClause(prog.clauses[i], prog.equality_relation, object_relation)]

\* lines 282-286
StaticAtoms(prog, object_relation, nobj) ==
  prog.trivial_clauses
    \o [k \in 1 .. nobj |-> Atom(object_relation, <<Constant(k - 1, FALSE)>>)]

DatalogEngineInit(prog, nobj) ==
  LET num_relations == prog.num_relations + 1
      object_relation == prog.num_relations
      clauses == NormalizedClauses(prog, object_relation)
  IN IF \E i \in DOMAIN clauses : Failed(clauses[i]) THEN AssertionError
     ELSE LET code == GetQueryEngineCode(num_relations, clauses)
          IN IF Failed(code) THEN AssertionError
             ELSE [num_relations |-> num_relations,
                   object_relation |-> object_relation,
                   code |-> code,
                   static_atoms |-> StaticAtoms(prog, object_relation, nobj)]

(***************************************************************************)
(* Execution of a plan and of a unit (the plan-node interpreter and the    *)
(* code the compile_* functions generate).                                 *)
(***************************************************************************)
\* the object identifiers occurring in the tables
ActiveDomain(rels) ==
  UNION {UNION {Range(t) : t \in rels[r]} : r \in DOMAIN rels}

TermValue(t, v) == IF t.var THEN v[t.id] ELSE t.id
AtomTuple(atom, v) == [i \in DOMAIN atom.arguments |-> TermValue(atom.arguments[i], v)]

\* the bindings of the clause's variables that pass the joins, the anti-joins
\* and the residual filters
Bindings(tree, rels) ==
  {v \in [0 .. tree.num_variables - 1 -> ActiveDomain(rels)] :
     /\ \A i \in DOMAIN tree.positive :
          AtomTuple(tree.positive[i], v) \in rels[tree.positive[i].relation_id]
     /\ \A i \in DOMAIN tree.negative :
          AtomTuple(tree.negative[i], v) \notin rels[tree.negative[i].relation_id]
     /\ \A i \in DOMAIN tree.vars_eq : v[tree.vars_eq[i][1]] = v[tree.vars_eq[i][2]]
     /\ \A i \in DOMAIN tree.vars_neq : v[tree.vars_neq[i][1]] # v[tree.vars_neq[i][2]]
     /\ \A i \in DOMAIN tree.obj_eq : v[tree.obj_eq[i][1]] = tree.obj_eq[i][2]
     /\ \A i \in DOMAIN tree.obj_neq : v[tree.obj_neq[i][1]] # tree.obj_neq[i][2]}

\* the plan's result: the bindings restricted to the projected indices
EvalQueryTree(tree, rels) ==
  {[x \in tree.projection \cap (0 .. tree.num_variables - 1) |-> v[x]] :
     v \in Bindings(tree, rels)}

\* the head tuples a rule of a unit derives, columns ordered by relation_args
Derived(u, k, rels) ==
  {[i \in DOMAIN u.relation_args[k] |-> row[u.relation_args[k][i]]] :
     row \in EvalQueryTree(u.rules[k], rels)}

\* every rule of the unit evaluated against rels, each result united into the
\* table of its relation
UnitStep(u, rels) ==
  [r \in DOMAIN rels |->
     rels[r] \cup UNION {Derived(u, k, rels) : k \in {j \in DOMAIN u.rules : u.relations[j] = r}}]

\* a variant that stops only after a round that derives nothing at all
RoundIsLast_NothingDerived(u, rels) ==
  \A k \in DOMAIN u.rules : Derived(u, k, rels) = {}

\* the fixpoint loop stops after a round in which no table changed
RoundIsLast(u, rels) == UnitStep(u, rels) = rels

(***************************************************************************)
(* DatalogEngine.__call__ (lines 288-299).                                 *)
(***************************************************************************)
ArgIds(atom) == [i \in DOMAIN atom.arguments |-> atom.arguments[i].id]

\* a variant that keeps working on the tables of the previous call
CallEnv_Reuse(f, eng) ==
  LET rels == ListAppend([r \in DOMAIN f |->
                            f[r] \cup (IF r \in DOMAIN relations THEN relations[r] ELSE {})], {})
  IN [r \in DOMAIN rels |->
        rels[r] \cup {ArgIds(a) : a \in {b \in Range(eng.static_atoms) : b.relation_id = r}}]

\* lines 291-296: fresh copies of the input tables, one more empty table, and
\* the static atoms
CallEnv(f, eng) ==
  LET rels == ListAppend([r \in DOMAIN f |-> f[r]], {})
  IN [r \in DOMAIN rels |->
        rels[r] \cup {ArgIds(a) : a \in {b \in Range(eng.static_atoms) : b.relation_id = r}}]

\* a variant that returns the tables without removing any
CallResult_Keep(rels, eng) == rels

\* lines 298-299
CallResult(rels, eng) == ListDelete(rels, eng.object_relation)

(***************************************************************************)
(* The programs and inputs of the model.                                   *)
(***************************************************************************)
Program(num_relations, equality_relation, clauses, trivial_clauses) ==
  [num_relations |-> num_relations, equality_relation |-> equality_relation,
   clauses |-> clauses, trivial_clauses |-> trivial_clauses]

X0 == Variable(0)
X1 == Variable(1)
X2 == Variable(2)

\* edge = 0, path = 1, equality = 2:
\*   path(X0,X1) :- edge(X0,X1).   path(X0,X2) :- path(X0,X1), edge(X1,X2).
TCProgram ==
  Program(3, 2,
          << Clause(Atom(1, <<X0, X1>>), <<Atom(0, <<X0, X1>>)>>, <<>>, <<>>),
             Clause(Atom(1, <<X0, X2>>), <<Atom(1, <<X0, X1>>), Atom(0, <<X1, X2>>)>>,
                    <<>>, <<>>) >>,
          <<>>)

\* p = 0, q = 1, r = 2, equality = 3:   r(X0,X1) :- p(X0,X1), q(X1).
RPQProgram ==
  Program(4, 3,
          << Clause(Atom(2, <<X0, X1>>), <<Atom(0, <<X0, X1>>), Atom(1, <<X1>>)>>,
                    <<>>, <<>>) >>,
          <<>>)

\* p = 0, q = 1, equality = 2:   p(X0) :- not q(X0), X0 != 1.   and the fact q(0).
UniverseProgram ==
  Program(3, 2,
          << Clause(Atom(0, <<X0>>), <<>>, <<Atom(1, <<X0>>), Atom(2, <<X0, Object(1)>>)>>,
                    <<>>) >>,
          << Atom(1, <<Object(0)>>) >>)

\* the enumerated programs: relations 0 .. MaxRelations-1 are unary, the
\* equality relation is MaxRelations; a clause is h(X0) :- b(X0) or
\* h(X0) :- not b(X0), numbered (h * MaxRelations + b) * 2 + sign
ShapeClause(code) ==
  LET h == code \div (2 * MaxRelations)
      b == (code \div 2) % MaxRelations
      body == <<Atom(b, <<X0>>)>>
  IN IF code % 2 = 0 THEN Clause(Atom(h, <<X0>>), body, <<>>, <<>>)
     ELSE Clause(Atom(h, <<X0>>), <<>>, body, <<>>)

RECURSIVE UpTo(_, _)
UpTo(S, k) ==
  IF k = 0 THEN {{}}
  ELSE LET P == UpTo(S, k - 1) IN P \cup {T \cup {x} : T \in P, x \in S}

ShapePrograms(clauses) ==
  {Program(MaxRelations + 1, MaxRelations,
           [k \in 1 .. Cardinality(codes) |-> ShapeClause(SortedSeq(codes)[k])], <<>>) :
     codes \in UpTo(0 .. 2 * MaxRelations * MaxRelations - 1, clauses)}

Singles == {<<a>> : a \in 0 .. MaxObjects - 1}
Pairs == {<<a, b>> : a, b \in 0 .. MaxObjects - 1}
Database(tables) == ListOf(tables)

\* the first call's inputs, per program: tables of at most `tuples` tuples,
\* programs of at most `clauses` clauses
InputsWithin(tuples, clauses) ==
  {[program |-> TCProgram, num_objects |-> MaxObjects,
    facts |-> Database(<<edge, {}, {}>>)] : edge \in UpTo(Pairs, tuples)}
  \cup
  {[program |-> RPQProgram, num_objects |-> MaxObjects,
    facts |-> Database(<<p, q, {}, {}>>)] :
       p \in UpTo(Pairs, tuples - 1), q \in {{}, {<<1>>}}}
  \cup
  {[program |-> UniverseProgram, num_objects |-> n,
    facts |-> Database(<<{}, q, {}>>)] :
       n \in 0 .. MaxObjects, q \in UpTo(Singles, tuples)}
  \cup
  {[program |-> prog, num_objects |-> 2,
    facts |-> [r \in 0 .. MaxRelations |-> IF r = 0 THEN {<<0>>} ELSE {}]] :
       prog \in ShapePrograms(clauses)}

Inputs == InputsWithin(MaxTuples, MaxClauses)

\* the inputs of the engines that are called repeatedly
CallInputs == InputsWithin(MaxTuples - 1, MaxClauses - 1)

\* another Database of the same shape: objects 0 and 1 exchanged
Swap(f) ==
  [r \in DOMAIN f |-> {[i \in DOMAIN t |-> IF t[i] < 2 THEN 1 - t[i] ELSE t[i]] : t \in f[r]}]

NoFluents == [given |-> FALSE, tables |-> <<>>]
SomeFluents == [given |-> TRUE, tables |-> <<[t \in {<<0>>} |-> 1]>>]

\* no call has been remembered yet
NoCall == [called |-> FALSE]

(***************************************************************************)
(* The engine as a state machine.                                          *)
(***************************************************************************)
NormIdle ==
  /\ npc = "idle"
  /\ clause = <<>>
  /\ normalized = <<>>
  /\ projection = {}

InitWith(inputs) ==
  /\ NormIdle
  /\ pc = "new"
  /\ \E inp \in inputs :
       /\ program = inp.program
       /\ num_objects = inp.num_objects
       /\ facts = inp.facts
  /\ engine = Unconstructed
  /\ fluents = NoFluents
  /\ relations = EmptyList
  /\ unit = 0
  /\ evals = <<>>
  /\ loops = <<>>
  /\ first = NoCall

Init == InitWith(Inputs)
InitCalls == InitWith(CallInputs)

\* engine = DatalogEngine(program, num_objects)
Construct ==
  /\ pc = "new"
  /\ engine' = DatalogEngineInit(program, num_objects)
  /\ pc' = IF Failed(engine') THEN "failed" ELSE "ready"
  /\ UNCHANGED <<program, num_objects, facts, fluents, relations, unit, evals, loops,
                 first>>
  /\ UNCHANGED normVars

Units == engine.code.units

\* the counters tell none, once and more than once apart
Count(n) == IF n >= 2 THEN n ELSE n + 1

\* engine(f, fl) up to exec: lines 291-296
Call ==
  /\ pc \in {"ready", "returned"}
  /\ \E f \in (IF pc = "ready" THEN {facts} ELSE {facts, Swap(facts)}),
        fl \in {NoFluents, SomeFluents} :
       /\ facts' = f
       /\ fluents' = fl
       /\ relations' = CallEnv(f, engine)
  /\ pc' = "running"
  /\ unit' = 1
  /\ evals' = [i \in DOMAIN program.clauses |-> 0]
  /\ loops' = [i \in DOMAIN Units |-> 0]
  /\ UNCHANGED <<program, num_objects, engine, first>>
  /\ UNCHANGED normVars

\* exec, line 297: a single-pass unit
RunWithoutDependencies ==
  /\ pc = "running"
  /\ unit \in DOMAIN Units
  /\ Units[unit].unit.kind = "without_dependencies"
  /\ relations' = UnitStep(Units[unit].unit, relations)
  /\ evals' = [i \in DOMAIN evals |->
                 IF i \in Range(Units[unit].idxs) THEN Count(evals[i]) ELSE evals[i]]
  /\ unit' = unit + 1
  /\ UNCHANGED <<pc, program, num_objects, engine, facts, fluents, loops, first>>
  /\ UNCHANGED normVars

\* exec, line 297: one round of a fixpoint unit; the unit ends with the first
\* round that changes no table
RunInterdepending ==
  /\ pc = "running"
  /\ unit \in DOMAIN Units
  /\ Units[unit].unit.kind = "interdepending"
  /\ relations' = UnitStep(Units[unit].unit, relations)
  /\ evals' = [i \in DOMAIN evals |->
                 IF i \in Range(Units[unit].idxs) THEN Count(evals[i]) ELSE evals[i]]
  /\ loops' = [loops EXCEPT ![unit] = Count(@)]
  /\ unit' = IF RoundIsLast(Units[unit].unit, relations) THEN unit + 1 ELSE unit
  /\ UNCHANGED <<pc, program, num_objects, engine, facts, fluents, first>>
  /\ UNCHANGED normVars

\* lines 298-299
ReturnTables ==
  /\ pc = "running"
  /\ unit = Len(Units) + 1
  /\ relations' = CallResult(relations, engine)
  /\ pc' = "returned"
  /\ UNCHANGED <<program, num_objects, engine, facts, fluents, unit, evals, loops>>
  /\ UNCHANGED normVars

Return == ReturnTables /\ UNCHANGED first

\* the same return, observed: some call is remembered with its result, and
\* the calls after it are compared with it
ReturnObserved ==
  /\ ReturnTables
  /\ \/ /\ first = NoCall
        /\ first' = first
     \/ /\ first = NoCall
        /\ first' = [called |-> TRUE, facts |-> facts, fluents |-> fluents,
                     result |-> relations', others |-> FALSE]
     \/ /\ first # NoCall
        /\ first' = [first EXCEPT !.others = @ \/ first.facts # facts
                                                \/ first.fluents # fluents]

\* One call of a new engine, run to its end.
FirstCall == pc = "ready" /\ Call

Next ==
  \/ Construct
  \/ FirstCall
  \/ RunWithoutDependencies
  \/ RunInterdepending
  \/ Return

Spec == Init /\ [][Next]_vars

\* The interpreter executes the next statement of the compiled program, and
\* __call__ returns after exec.
Exec == RunWithoutDependencies \/ RunInterdepending \/ Return
LiveSpec == Spec /\ WF_vars(Exec)

\* An engine that is called again and again.
NextCalls ==
  \/ Construct
  \/ Call
  \/ RunWithoutDependencies
  \/ RunInterdepending
  \/ ReturnObserved

SpecCalls == InitCalls /\ [][NextCalls]_vars

(***************************************************************************)
(* _normalize_clause and _generate_query_tree applied to one clause.       *)
(* Relations: p = 0, q = 1, equality = 2; the universe relation is 3.      *)
(***************************************************************************)
NormProgram == [num_relations |-> 3, equality_relation |-> 2]
NormEqRelation == NormProgram.equality_relation
NormObjectRelation == NormProgram.num_relations

Terms == {Variable(i) : i \in 0 .. MaxVars - 1} \cup {Object(o) : o \in 0 .. MaxConsts - 1}
VarTerms == {t \in Terms : t.var}

\* p(t) and p(t1, t2)
HeadAtoms == {Atom(0, <<t>>) : t \in Terms} \cup {Atom(0, <<t1, t2>>) : t1, t2 \in Terms}
\* q(t), and the equality literals, well-formed or not
PosBodies ==
  {<<>>} \cup {<<Atom(1, <<t>>)>> : t \in Terms}
         \cup {<<Atom(NormEqRelation, <<t1, t2>>)>> : t1, t2 \in Terms}
         \cup {<<Atom(NormEqRelation, <<t>>)>> : t \in VarTerms}
NegBodies ==
  {<<>>} \cup {<<Atom(1, <<t>>)>> : t \in Terms}
         \cup {<<Atom(NormEqRelation, <<t1, t2>>)>> : t1 \in VarTerms, t2 \in Terms}
\* no numeric constraint, or one over a single variable
ConstraintLists == {<<>>} \cup {<<{i}>> : i \in 0 .. MaxVars - 1}

RawClauses ==
  {Clause(h, pb, nb, cs) :
     h \in HeadAtoms, pb \in PosBodies, nb \in NegBodies, cs \in ConstraintLists}

EngineIdle ==
  /\ pc = "idle"
  /\ program = <<>>
  /\ num_objects = 0
  /\ engine = Unconstructed
  /\ facts = EmptyList
  /\ fluents = NoFluents
  /\ relations = EmptyList
  /\ unit = 0
  /\ evals = <<>>
  /\ loops = <<>>
  /\ first = NoCall

InitNorm ==
  /\ EngineIdle
  /\ npc = "raw"
  /\ clause \in RawClauses
  /\ normalized = <<>>
  /\ projection = {}

\* normalized = _normalize_clause(clause, eq_relation, object_relation)
Normalize ==
  /\ npc = "raw"
  /\ normalized' = NormalizeClause(clause, NormEqRelation, NormObjectRelation)
  /\ npc' = IF Failed(normalized') THEN "failed" ELSE "normalized"
  /\ UNCHANGED <<clause, projection>>
  /\ UNCHANGED engineVars

\* _generate_query_tree(normalized)
Plan ==
  /\ npc = "normalized"
  /\ projection' = GenerateQueryTree(normalized).projection
  /\ npc' = "planned"
  /\ UNCHANGED <<clause, normalized>>
  /\ UNCHANGED engineVars

NextNorm ==
  \/ Normalize
  \/ Plan

SpecNorm == InitNorm /\ [][NextNorm]_vars

(***************************************************************************)
(* Properties of normalisation and planning (SpecNorm).                    *)
(***************************************************************************)
IsEqLiteral(atom) == atom.relation_id = NormEqRelation
\* an equality literal one of _extract_eq_atom's asserts rejects
Malformed(atom) ==
  /\ IsEqLiteral(atom)
  /\ \/ Len(atom.arguments) # 2
     \/ \A i \in DOMAIN atom.arguments : ~atom.arguments[i].var
MalformedClause(c) ==
  \E a \in Range(c.pos_body) \cup Range(c.neg_body) : Malformed(a)

\* the atoms the normaliser keeps from a body
Kept(body) == {a \in Range(body) : ~IsEqLiteral(a)}

\* C4: every clause _normalize_clause accepts (no malformed equality literal)
\* passes the constructor's assertion, and in the NormalizedClause every index
\* 0 <= v < num_variables occurs in a positive atom; an index that no kept
\* positive atom binds is bound by a universe atom over that variable.
C4_PositivelyBounded ==
  npc # "raw" =>
    /\ Failed(normalized) <=> MalformedClause(clause)
    /\ ~Failed(normalized) =>
         /\ \A v \in 0 .. normalized.num_variables - 1 :
              \E i \in DOMAIN normalized.positive :
                v \in GetVariables(normalized.positive[i])
         /\ \A v \in 0 .. normalized.num_variables - 1 :
              (\A a \in Kept(clause.pos_body) : v \notin GetVariables(a))
                => Atom(NormObjectRelation, <<Variable(v)>>) \in Range(normalized.positive)

\* C4 witness: a clause whose head variable no body atom binds was normalised
C4_Witness ==
  /\ npc = "normalized"
  /\ clause.head = Atom(0, <<Variable(1)>>)
  /\ clause.pos_body = <<Atom(1, <<Variable(0)>>)>>
  /\ Len(normalized.positive) = 2

\* the variables used anywhere in a normalised clause
UsedVariables(nc) ==
  GetVariables(nc.head) \cup AtomsVariables(nc.positive) \cup AtomsVariables(nc.negative)
    \cup UNION {{nc.vars_eq[i][1], nc.vars_eq[i][2]} : i \in DOMAIN nc.vars_eq}
    \cup UNION {{nc.vars_neq[i][1], nc.vars_neq[i][2]} : i \in DOMAIN nc.vars_neq}
    \cup {nc.obj_eq[i][1] : i \in DOMAIN nc.obj_eq}
    \cup {nc.obj_neq[i][1] : i \in DOMAIN nc.obj_neq}
    \cup UNION {nc.constrants[i] : i \in DOMAIN nc.constrants}

\* C9: after normalisation every variable used anywhere in the clause (head,
\* positive or negative atom, equality or inequality literal, numeric
\* constraint) appears in at least one atom of the positive list.
C9_AllUsedVariablesBound ==
  (npc # "raw" /\ ~Failed(normalized)) =>
    UsedVariables(normalized) \subseteq AtomsVariables(normalized.positive)

\* C10: the set of indices handed to the final projection is exactly the set
\* of variable indices appearing in the clause head.
C10_ProjectionIsHeadVariables ==
  npc = "planned" => projection = GetVariables(normalized.head)

(***************************************************************************)
(* Properties of the engine (Spec, LiveSpec).                              *)
(***************************************************************************)
Constructed == pc \in {"ready", "running", "returned"}
ObjectRelation == program.num_relations
EngClauses == NormalizedClauses(program, ObjectRelation)
EngGraph == GetDependencyGraph(program.num_relations + 1, EngClauses)
EngComponents == GetDependentComponents(EngGraph)
Stratum(r) == ComponentIdx(EngComponents, r)
BodyRelations(nc) == {a.relation_id : a \in Range(nc.positive) \cup Range(nc.negative)}

\* C1: construction fails exactly for the programs in which some clause has a
\* negative body atom whose relation's stratum index is greater than or equal
\* to that of the clause head's relation, and succeeds when every negative
\* atom's relation lies in a strictly earlier stratum; mutual negation fails.
C1_StratificationDecidesConstruction ==
  pc \in {"failed", "ready"} =>
    /\ pc = "failed" <=>
         \E i \in DOMAIN EngClauses : \E k \in DOMAIN EngClauses[i].negative :
           Stratum(EngClauses[i].negative[k].relation_id)
             >= Stratum(EngClauses[i].head.relation_id)
    /\ pc # "failed" <=>
         \A i \in DOMAIN EngClauses : \A k \in DOMAIN EngClauses[i].negative :
           Stratum(EngClauses[i].negative[k].relation_id)
             < Stratum(EngClauses[i].head.relation_id)
    /\ (\E i, j \in DOMAIN EngClauses :
          /\ EngClauses[i].head.relation_id # EngClauses[j].head.relation_id
          /\ EngClauses[j].head.relation_id
               \in {a.relation_id : a \in Range(EngClauses[i].negative)}
          /\ EngClauses[i].head.relation_id
               \in {a.relation_id : a \in Range(EngClauses[j].negative)})
         => pc = "failed"

\* C1 witness: p(X) :- not q(X). and q(X) :- not p(X). was refused
C1_Witness ==
  /\ pc = "failed"
  /\ Len(program.clauses) = 2
  /\ program.clauses[1] = Clause(Atom(0, <<X0>>), <<>>, <<Atom(1, <<X0>>)>>, <<>>)
  /\ program.clauses[2] = Clause(Atom(1, <<X0>>), <<>>, <<Atom(0, <<X0>>)>>, <<>>)

\* the transitive closure of a set of pairs, by Warshall's algorithm
RECURSIVE Warshall(_, _)
Warshall(E, ks) ==
  IF ks = {} THEN E
  ELSE LET k == CHOOSE x \in ks : TRUE
           W == Warshall(E, ks \ {k})
       IN W \cup {<<e1[1], e2[2]>> : e1 \in {e \in W : e[2] = k}, e2 \in {e \in W : e[1] = k}}
TransitiveClosure(E) == Warshall(E, UNION {Range(e) : e \in E})

\* C2: for the transitive closure program and every input edge table with an
\* empty path table, the call returns path = the transitive closure of edge
\* and edge unchanged; edge = {(0,1),(1,2)} gives path = {(0,1),(1,2),(0,2)}.
C2_TransitiveClosure ==
  (pc = "returned" /\ program = TCProgram /\ facts[1] = {}) =>
    /\ relations[1] = TransitiveClosure(facts[0])
    /\ relations[0] = facts[0]
    /\ facts[0] = {<<0, 1>>, <<1, 2>>} => relations[1] = {<<0, 1>>, <<1, 2>>, <<0, 2>>}

\* C2 witness: the call on edge = {(0,1),(1,2)} returned
C2_Witness ==
  /\ pc = "returned"
  /\ program = TCProgram
  /\ facts[0] = {<<0, 1>>, <<1, 2>>}
  /\ relations[1] = {<<0, 1>>, <<1, 2>>, <<0, 2>>}

\* the units that define a relation of the given stratum
UnitsOf(stratum) ==
  {u \in DOMAIN Units : \E k \in DOMAIN Units[u].unit.relations :
                          Stratum(Units[u].unit.relations[k]) = stratum}

\* C3: the units follow the order of the components, and that order is
\* dependency-first: the units of a stratum B that a clause of another stratum
\* A refers to come before the units of A; during a call a step changes only
\* tables of the unit it executes and never goes back to an earlier unit, so
\* the tables of B are final before a clause of A is evaluated.
C3_UnitOrder ==
  pc = "ready" =>
    /\ \A u1, u2 \in DOMAIN Units :
         u1 < u2 => Stratum(Units[u1].unit.relations[1]) <= Stratum(Units[u2].unit.relations[1])
    /\ \A u \in DOMAIN Units : \A k \in DOMAIN Units[u].idxs :
         \A b \in BodyRelations(EngClauses[Units[u].idxs[k]]) :
           Stratum(b) # Stratum(EngClauses[Units[u].idxs[k]].head.relation_id)
             => \A ub \in UnitsOf(Stratum(b)) : ub < u

C3_StepsInOrder ==
  (pc = "running" /\ pc' = "running") =>
    /\ unit' >= unit
    /\ \A r \in DOMAIN relations :
         relations'[r] # relations[r] => r \in Range(Units[unit].unit.relations)

C3_DependencyFirst == []C3_UnitOrder /\ [][C3_StepsInOrder]_vars

\* C3 witness: a clause of a later stratum is about to be evaluated after the
\* unit of the stratum it refers to has changed that stratum's table
C3_Witness ==
  /\ pc = "running"
  /\ unit = 2
  /\ unit \in DOMAIN Units
  /\ \E b \in BodyRelations(EngClauses[Units[2].idxs[1]]) :
       /\ b \in Range(Units[1].unit.relations)
       /\ relations[b] # facts[b]

\* r depends on itself, directly or through a cycle of the dependency graph
RECURSIVE ReachableIn(_, _)
ReachableIn(S, n) ==
  IF n = 0 THEN S
  ELSE LET R == ReachableIn(S, n - 1) IN R \cup UNION {EngGraph[x] : x \in R}
DependsOnItself(r) == r \in ReachableIn(EngGraph[r], Cardinality(DOMAIN EngGraph))

\* C8: a stratum is compiled to one joint fixpoint unit exactly when it has
\* more than one relation or its relation is its own successor; otherwise each
\* defining clause gets a single-pass unit, evaluated exactly once per call.
\* So a relation that depends on itself is evaluated by fixpoint iteration,
\* and r(X,Y) :- p(X,Y), q(Y). with p = {(0,1),(1,2)}, q = {(1)} gives
\* r = {(0,1)} with one evaluation and no fixpoint round.
C8_UnitKinds ==
  /\ pc = "ready" =>
    /\ \A g \in DOMAIN EngComponents :
         LET group == EngComponents[g]
             idxs == {i \in DOMAIN EngClauses : EngClauses[i].head.relation_id \in Range(group)}
             mine == {u \in DOMAIN Units : Range(Units[u].idxs) \cap idxs # {}}
         IN IF Len(group) > 1 \/ group[1] \in EngGraph[group[1]]
            THEN /\ Cardinality(mine) = (IF idxs = {} THEN 0 ELSE 1)
                 /\ \A u \in mine : /\ Units[u].unit.kind = "interdepending"
                                    /\ Range(Units[u].idxs) = idxs
            ELSE /\ Cardinality(mine) = Cardinality(idxs)
                 /\ \A u \in mine : /\ Units[u].unit.kind = "without_dependencies"
                                    /\ Len(Units[u].idxs) = 1
    /\ \A u \in DOMAIN Units : \A k \in DOMAIN Units[u].unit.relations :
         DependsOnItself(Units[u].unit.relations[k])
           <=> Units[u].unit.kind = "interdepending"
  /\ pc = "returned" =>
       \A u \in DOMAIN Units :
         IF Units[u].unit.kind = "without_dependencies"
         THEN loops[u] = 0 /\ \A k \in DOMAIN Units[u].idxs : evals[Units[u].idxs[k]] = 1
         ELSE loops[u] >= 1
  /\ (pc = "returned" /\ program = RPQProgram
        /\ facts[0] = {<<0, 1>>, <<1, 2>>} /\ facts[1] = {<<1>>} /\ facts[2] = {})
       => relations[2] = {<<0, 1>>} /\ evals = <<1>> /\ loops = <<0>>

\* C8 witness: the single-pass example returned r = {(0,1)}
C8_Witness ==
  /\ pc = "returned"
  /\ program = RPQProgram
  /\ facts[0] = {<<0, 1>>, <<1, 2>>}
  /\ facts[1] = {<<1>>}
  /\ relations[2] = {<<0, 1>>}
  /\ evals = <<1>>

\* the table of the universe relation: one tuple per object
UniverseTable == {<<o>> : o \in 0 .. num_objects - 1}

\* C5: for every num_objects and every input Database with one table per
\* program relation, the returned Database has program.num_relations() tables
\* indexed as the input was; the table removed is the one at index
\* program.num_relations(), which holds one tuple per object.
C5_Return ==
  (pc = "running" /\ pc' = "returned" /\ ListLen(facts) = program.num_relations) =>
    /\ ListLen(relations') = program.num_relations
    /\ DOMAIN relations' = DOMAIN facts
    /\ \A r \in DOMAIN relations' : relations'[r] = relations[r] /\ facts[r] \subseteq relations'[r]
    /\ relations[program.num_relations] = UniverseTable

C5_UniverseExcluded == [][C5_Return]_vars

\* C5 witness: a call with a non-empty universe returned
C5_Witness ==
  /\ pc = "returned"
  /\ program = UniverseProgram
  /\ num_objects = 3
  /\ facts[1] = {}
  /\ ListLen(relations) = 3
  /\ relations[0] = {<<2>>}
  /\ relations[1] = {<<0>>}

\* C6: after any sequence of earlier calls, a call with the facts and fluents
\* of an earlier call returns the tables that call returned; a call changes
\* neither its inputs nor the engine.
C6_SameResult ==
  (pc = "returned" /\ first.called /\ first.facts = facts /\ first.fluents = fluents)
    => relations = first.result

C6_CallKeepsInputs ==
  /\ Constructed => engine' = engine
  /\ pc = "running" => facts' = facts /\ fluents' = fluents

C6_Deterministic == []C6_SameResult /\ [][C6_CallKeepsInputs]_vars

\* C6 witness: the remembered call was repeated after a call with other
\* inputs, and returned the remembered, non-empty tables
C6_Witness ==
  /\ pc = "returned"
  /\ first.called
  /\ first.others
  /\ first.facts = facts
  /\ first.fluents = fluents
  /\ facts # Swap(facts)
  /\ relations = first.result
  /\ \E r \in DOMAIN relations : relations[r] # facts[r]

\* C7: every call of a constructed engine returns: each fixpoint unit stops
\* after finitely many rounds; during a call tables only grow.
C7_TablesGrow ==
  (pc = "running" /\ pc' = "running") =>
    \A r \in DOMAIN relations : relations[r] \subseteq relations'[r]

C7_Terminates ==
  /\ [](pc = "running" => <>(pc = "returned"))
  /\ [][C7_TablesGrow]_vars

\* C7 witness: a fixpoint unit ran more than one round and the call returned
C7_Witness ==
  /\ pc = "returned"
  /\ \E u \in DOMAIN Units : loops[u] = 2

====
